---- MODULE Spec2Model ----
(***************************************************************************)
(* A model of the GPU n-best selection engine (NthElementGPU) and of the   *)
(* GPU backend (gpu::Backend) of marian.                                   *)
(*                                                                         *)
(* Scores are modelled by small naturals: only their order matters to the  *)
(* selection.  A device call that can fail is given the set of APIs that   *)
(* fail during the operation; a call wrapped in CUDA_CHECK aborts the      *)
(* process when it fails, an unwrapped call goes on.                       *)
(***************************************************************************)
EXTENDS Integers, Sequences, FiniteSets, TLC

(***************************************************************************)
(* Bounds of the model.                                                    *)
(***************************************************************************)
MaxDimBatch == 2      \* batch rows of a score tensor: 1..MaxDimBatch
MaxInputN   == 2      \* input beam count of a score tensor: 1..MaxInputN
MaxVocab    == 3      \* vocabulary size of a fully enumerated tensor
MaxCells    == 4      \* elements of a fully enumerated tensor
MaxScore    == 2      \* scores are 0..MaxScore
MaxN        == 2      \* requested N: 0..MaxN
MaxBeamCap  == 2      \* maxBeamSize of an engine: 1..MaxBeamCap (and LargeConfigs)
MaxBatchCap == 2      \* maxBatchSize of an engine: 1..MaxBatchCap (and LargeConfigs)
MaxFaults   == 1      \* APIs that fail during one operation
MaxDevice   == 1      \* device numbers are 0..MaxDevice

(***************************************************************************)
(* Program constants.                                                      *)
(***************************************************************************)
MAX_VOCAB_SIZE      == 500000
MAX_BLOCKS_PER_BEAM == 8
TensorCoreMajor     == 7

Devices == 0..MaxDevice
Scores  == 0..MaxScore

Min(a, b) == IF a < b THEN a ELSE b
Max(a, b) == IF a > b THEN a ELSE b

(***************************************************************************)
(* size_t and int arithmetic.  A size_t is eight base-256 digits, least    *)
(* significant first, so that a product is taken modulo 2^64 as the        *)
(* machine takes it; the conversion to int keeps the low 32 bits, two's    *)
(* complement.                                                             *)
(***************************************************************************)
SizeT(n) == [k \in 1..8 |-> IF k <= 4 THEN (n \div (256^(k - 1))) % 256 ELSE 0]

RECURSIVE ConvSum(_, _, _, _)
ConvSum(a, b, k, i) ==
  IF i > k THEN 0 ELSE a[i] * b[k + 1 - i] + ConvSum(a, b, k, i + 1)

RECURSIVE MulDigits(_, _, _, _)
MulDigits(a, b, k, carry) ==
  IF k > 8 THEN <<>>
  ELSE LET s == ConvSum(a, b, k, 1) + carry
       IN  <<s % 256>> \o MulDigits(a, b, k + 1, s \div 256)

MulSizeT(a, b) == MulDigits(a, b, 1, 0)

ToInt(a) ==
  LET top == IF a[4] >= 128 THEN a[4] - 256 ELSE a[4]
  IN  ((top * 256 + a[3]) * 256 + a[2]) * 256 + a[1]

(***************************************************************************)
(* Score tensors.  A tensor has the shape [dimBatch, 1, inputN, vocabSize] *)
(* and an element type; a batch row holds inputN * vocabSize candidates.   *)
(* A row is given by the scores at some positions (at) and one score for   *)
(* every other position (fill), so that a row of MAX_VOCAB_SIZE            *)
(* candidates can be written down.                                         *)
(***************************************************************************)
Types == {"float32", "float16", "int8"}

RowLen(t) == t.inputN * t.vocabSize

ScoreAt(t, b, i) ==
  LET row == t.data[b + 1]
  IN  IF i \in DOMAIN row.at THEN row.at[i] ELSE row.fill

NumBlocks == MAX_BLOCKS_PER_BEAM

BlockLen(vocabSize) == (vocabSize + NumBlocks - 1) \div NumBlocks

\* Fully enumerated tensors: every position of every row has its own score.
SmallShapes ==
  { s \in [dimBatch : 1..MaxDimBatch, inputN : 1..MaxInputN, vocabSize : 1..MaxVocab] :
      s.dimBatch * s.inputN * s.vocabSize <= MaxCells }

FullRows(len) == { [at |-> f, fill |-> 0] : f \in [0..(len - 1) -> Scores] }

ContentTensors ==
  UNION { { [dimBatch |-> s.dimBatch, inputN |-> s.inputN, vocabSize |-> s.vocabSize,
             type |-> "float32", data |-> d] :
            d \in [1..s.dimBatch -> FullRows(s.inputN * s.vocabSize)] } :
          s \in SmallShapes }

\* One row of MAX_VOCAB_SIZE candidates with scores of its own at the first
\* position, at both sides of the first block boundary and at the last position.
SpikePositions == {0, BlockLen(MAX_VOCAB_SIZE) - 1, BlockLen(MAX_VOCAB_SIZE), MAX_VOCAB_SIZE - 1}

WideTensors ==
  { [dimBatch |-> 1, inputN |-> 1, vocabSize |-> MAX_VOCAB_SIZE, type |-> "float32",
     data |-> << [at |-> f, fill |-> 1] >>] : f \in [SpikePositions -> Scores] }

\* Tensors of every shape and type, all scores equal.
ShapeTensors ==
  { [dimBatch |-> b, inputN |-> i, vocabSize |-> v, type |-> ty,
     data |-> [r \in 1..b |-> [at |-> << >>, fill |-> 0]]] :
      b \in 1..MaxDimBatch, i \in 1..MaxInputN,
      v \in {MAX_VOCAB_SIZE, MAX_VOCAB_SIZE + 1}, ty \in Types }

(***************************************************************************)
(* topK_kernelLauncher: the two-stage block reduction.  Stage 1 splits the *)
(* vocabulary range of every beam row into MAX_BLOCKS_PER_BEAM blocks and  *)
(* takes each block's best beamWidth candidates; stage 2 merges the        *)
(* candidates of a batch row into its best beamWidth, best first.  A       *)
(* candidate is a position of the row; its record is (p, u): the position  *)
(* flattened over the whole tensor and the score.  Of two equal scores the *)
(* lower position wins.  A row with fewer than beamWidth candidates is     *)
(* padded with NoCandidate.                                                *)
(***************************************************************************)
NoCandidate == [p |-> -1, u |-> -1]

Better(t, b, i, j) ==
  \/ ScoreAt(t, b, i) > ScoreAt(t, b, j)
  \/ ScoreAt(t, b, i) = ScoreAt(t, b, j) /\ i < j

RECURSIVE TopOf(_, _, _, _)
TopOf(t, b, S, k) ==
  IF k = 0 \/ S = {} THEN <<>>
  ELSE LET best == CHOOSE i \in S : \A j \in S \ {i} : Better(t, b, i, j)
       IN  <<best>> \o TopOf(t, b, S \ {best}, k - 1)

\* The positions of block k of beam row j that can be among the block's best K:
\* those with a score of their own and the first K of the others.
BlockCandidates(t, b, j, k, K) ==
  LET lo   == j * t.vocabSize + k * BlockLen(t.vocabSize)
      hi   == j * t.vocabSize + Min((k + 1) * BlockLen(t.vocabSize), t.vocabSize)
      own  == { i \in DOMAIN t.data[b + 1].at : lo <= i /\ i < hi }
  IN  own \cup (lo..(Min(hi, lo + K + Cardinality(own)) - 1))

Range(s) == { s[x] : x \in DOMAIN s }

Stage1(t, b, K) ==
  UNION { Range(TopOf(t, b, BlockCandidates(t, b, j, k, K), K)) :
            j \in 0..(t.inputN - 1), k \in 0..(NumBlocks - 1) }

Records(t, b, K, best) ==
  [r \in 1..K |->
     IF r <= Len(best)
     THEN [p |-> b * RowLen(t) + best[r], u |-> ScoreAt(t, b, best[r])]
     ELSE NoCandidate]

Stage2(t, b, K) == Records(t, b, K, TopOf(t, b, Stage1(t, b, K), K))

RECURSIVE Rows(_, _, _, _)
Rows(t, b, batchSize, K) ==
  IF b >= batchSize THEN <<>> ELSE Stage2(t, b, K) \o Rows(t, b + 1, batchSize, K)

topK_kernelLauncher(t, batchSize, beamWidth) == Rows(t, 0, batchSize, beamWidth)

\* stage 1 writes beamWidth candidates per block of every beam row
TempFootprint(batchSize, beamsPerBatch, beamWidth) ==
  batchSize * beamsPerBatch * beamWidth * MAX_BLOCKS_PER_BEAM

(***************************************************************************)
(* State.                                                                  *)
(***************************************************************************)
VARIABLES
  currentDevice,   \* the device the calling thread is bound to
  aborted,         \* "" while the process runs, else the ABORT that ended it
  lastOp,          \* the last operation: its object, name, argument, device calls
  COMPILE_FP16,    \* the build flag
  scores,          \* the caller's score tensor
  outCosts,        \* the caller's output containers
  outKeys,
  call,            \* the arguments of the select-top-N call whose results are held
  nthState,        \* NthElementGPU: "none", "alive", "destroyed"
  deviceId_,
  maxBeamSize_,
  maxBatchSize_,
  cap,             \* elements each of the four buffers was allocated for
  allocs,          \* allocations and releases made so far
  frees,
  tops,            \* the device result buffer, as far as it was ever written
  topsHost,        \* its pinned host mirror, as far as it was ever written
  backendState,    \* gpu::Backend: "none", "alive", "destroyed"
  backendDeviceId_,
  compute_,
  int8_,
  alpha_,
  tensorCore_,
  fused_,
  dumpMatrices_,
  cublasHandle_,
  cusparseHandle_,
  scalars,         \* the device scalars oneGPU and zeroGPU
  cublas,          \* the dense library: handles created, bound, destroyed
  cusparse         \* the sparse library

envVars     == <<currentDevice, aborted, lastOp, COMPILE_FP16>>
callerVars  == <<scores, outCosts, outKeys, call>>
nthVars     == <<nthState, deviceId_, maxBeamSize_, maxBatchSize_, cap, allocs, frees,
                 tops, topsHost>>
flagVars    == <<int8_, alpha_, tensorCore_, fused_, dumpMatrices_>>
handleVars  == <<cublasHandle_, cusparseHandle_, cublas, cusparse>>
backendVars == <<backendState, backendDeviceId_, compute_, flagVars, handleVars,
                 scalars>>
vars        == <<envVars, callerVars, nthVars, backendVars>>

NoArg == -1

\* a device call: the API, its device argument (cudaSetDevice only), its outcome
DeviceCall(api, arg, faults) == [api |-> api, arg |-> arg, ok |-> api \notin faults]

Op(obj, op, arg, calls, returned) ==
  [obj |-> obj, op |-> op, arg |-> arg, calls |-> calls, returned |-> returned]

NoOp == Op("none", "none", FALSE, <<>>, TRUE)

\* the calls of a sequence of checked calls that are made: up to the first failure
RECURSIVE Checked(_)
Checked(calls) ==
  IF calls = <<>> THEN <<>>
  ELSE IF ~Head(calls).ok THEN <<Head(calls)>>
  ELSE <<Head(calls)>> \o Checked(Tail(calls))

AllOk(calls) == \A i \in DOMAIN calls : calls[i].ok

NoCall == [N |-> 0, isFirst |-> FALSE, preCosts |-> <<>>, preKeys |-> <<>>, active |-> FALSE]

FaultSets(apis) == { f \in SUBSET apis : Cardinality(f) <= MaxFaults }

\* what an unwritten slot of device or pinned memory may hold
Junk == { NoCandidate, [p |-> 0, u |-> MaxScore] }

Overwrite(old, new) == new \o SubSeq(old, Len(new) + 1, Len(old))

(***************************************************************************)
(* NthElementGPU.                                                          *)
(***************************************************************************)
SmallConfigs == [beam : 1..MaxBeamCap, batch : 1..MaxBatchCap]

\* maxima whose product does not fit an int
LargeConfigs == { [beam |-> 1024, batch |-> 512], [beam |-> 1024, batch |-> 256] }

tempElts(maxBeamSize, maxBatchSize) ==
  ToInt(MulSizeT(MulSizeT(SizeT(maxBatchSize), SizeT(maxBeamSize)),
                 MulSizeT(SizeT(maxBeamSize), SizeT(MAX_BLOCKS_PER_BEAM))))

\* cudaMalloc of n elements: a negative int count converts to a size_t beyond
\* any device
MallocOk(n, faults) == "cudaMalloc" \notin faults /\ n >= 0

NthConstructTrace(maxBeamSize, maxBatchSize, deviceId, faults) ==
  LET sd   == DeviceCall("cudaSetDevice", deviceId, faults)
      m1   == [api |-> "cudaMalloc", arg |-> NoArg,
               ok |-> MallocOk(tempElts(maxBeamSize, maxBatchSize), faults)]
      m3   == [api |-> "cudaMalloc", arg |-> NoArg,
               ok |-> MallocOk(maxBatchSize * maxBeamSize, faults)]
      h    == DeviceCall("cudaHostAlloc", NoArg, faults)
  IN  IF ~m1.ok THEN <<sd, m1>>
      ELSE IF ~m3.ok THEN <<sd, m1, m1, m3>>
      ELSE <<sd, m1, m1, m3, h>>

NthElementGPU(maxBeamSize, maxBatchSize, deviceId, faults) ==
  /\ nthState = "none"
  /\ aborted = ""
  /\ LET trace == NthConstructTrace(maxBeamSize, maxBatchSize, deviceId, faults)
         ok    == Len(trace) = 5 /\ trace[5].ok
     IN  /\ currentDevice' = IF trace[1].ok THEN deviceId ELSE currentDevice
         /\ deviceId_' = deviceId
         /\ maxBeamSize_' = maxBeamSize
         /\ maxBatchSize_' = maxBatchSize
         /\ aborted' = IF ok THEN "" ELSE "CUDA_CHECK"
         /\ lastOp' = Op("nth", "NthElementGPU", FALSE, trace, ok)
         /\ nthState' = IF ok THEN "alive" ELSE "none"
         /\ allocs' = Cardinality({ i \in 2..Len(trace) : trace[i].ok })
         /\ cap' = IF ok
                   THEN [topk_tmp_id_buf  |-> tempElts(maxBeamSize, maxBatchSize),
                         topk_tmp_val_buf |-> tempElts(maxBeamSize, maxBatchSize),
                         tops             |-> maxBatchSize * maxBeamSize,
                         topsHost         |-> maxBeamSize * maxBatchSize]
                   ELSE cap
  /\ UNCHANGED <<COMPILE_FP16, callerVars, frees, tops, topsHost, backendVars>>

NthDestroy(faults) ==
  /\ nthState = "alive"
  /\ aborted = ""
  /\ ~call.active
  /\ LET sd == DeviceCall("cudaSetDevice", deviceId_, faults)
         f  == DeviceCall("cudaFree", NoArg, faults)
         fh == DeviceCall("cudaFreeHost", NoArg, faults)
     IN  /\ currentDevice' = IF sd.ok THEN deviceId_ ELSE currentDevice
         /\ lastOp' = Op("nth", "~NthElementGPU", FALSE, <<sd, f, f, f, fh>>, TRUE)
  /\ nthState' = "destroyed"
  /\ frees' = frees + 4
  /\ UNCHANGED <<aborted, COMPILE_FP16, callerVars, deviceId_, maxBeamSize_, maxBatchSize_,
                 cap, allocs, tops, topsHost, backendVars>>

\* a beam-dimension check that forgets the first step
BeamDimOkMut(inputN, N, isFirst) == inputN = N

\* a vocabulary check that is exclusive
VocabOkMut(vocabSize) == vocabSize < MAX_VOCAB_SIZE

\* the four checks of getNBestList and its dispatch on the element type
BeamDimOk(inputN, N, isFirst) == inputN = (IF isFirst THEN 1 ELSE N)
VocabOk(vocabSize) == ~(vocabSize > MAX_VOCAB_SIZE)
BatchOk(dimBatch, maxBatchSize) == ~(dimBatch > maxBatchSize)
BeamOk(N, inputN, maxBeamSize) == ~(Max(N, inputN) > maxBeamSize)
TypeSupported(type, fp16) == type = "float32" \/ (fp16 /\ type = "float16")

CheckAbort(t, N, isFirst, maxBeamSize, maxBatchSize) ==
  IF ~BeamDimOk(t.inputN, N, isFirst) THEN "beam dim"
  ELSE IF ~VocabOk(t.vocabSize) THEN "vocab size"
  ELSE IF ~BatchOk(t.dimBatch, maxBatchSize) THEN "batch size"
  ELSE IF ~BeamOk(N, t.inputN, maxBeamSize) THEN "beam size"
  ELSE ""

\* The kernel writes the result buffer when it is launched on the engine's device
\* and its stage-1 candidates fit the temporary buffers.
KernelSound(batchSize, beamsPerBatch, beamWidth, dev, faults) ==
  /\ "topK_kernelLauncher" \notin faults
  /\ dev = deviceId_
  /\ TempFootprint(batchSize, beamsPerBatch, beamWidth) <= cap.topk_tmp_id_buf
  /\ TempFootprint(batchSize, beamsPerBatch, beamWidth) <= cap.topk_tmp_val_buf

\* Otherwise a launch that failed wrote nothing, and one on another device or
\* beyond its buffers may or may not have written it.
WroteChoices(batchSize, beamsPerBatch, beamWidth, dev, faults) ==
  IF KernelSound(batchSize, beamsPerBatch, beamWidth, dev, faults) THEN {TRUE}
  ELSE IF "topK_kernelLauncher" \in faults THEN {FALSE}
  ELSE BOOLEAN

\* selectNBest: binds the device and launches the kernel
selectNBest(t, batchSize, beamsPerBatch, beamWidth, dev, faults, wrote) ==
  LET sd     == DeviceCall("cudaSetDevice", deviceId_, faults)
      launch == DeviceCall("topK_kernelLauncher", NoArg, faults)
  IN  [calls |-> <<sd, launch>>,
       dev   |-> IF sd.ok THEN deviceId_ ELSE dev,
       tops  |-> IF wrote THEN Overwrite(tops, topK_kernelLauncher(t, batchSize, beamWidth))
                 ELSE tops]

\* a getPairs that appends the values last record first
getPairsMut(numElts, keysIn, valuesIn, device, host, dev, faults, junk) ==
  LET sd     == DeviceCall("cudaSetDevice", deviceId_, faults)
      cp     == DeviceCall("cudaMemcpyAsync", NoArg, faults)
      sync   == DeviceCall("cudaStreamSynchronize", NoArg, faults)
      copied == [i \in 1..numElts |-> IF i <= Len(device) THEN device[i] ELSE junk]
      host1  == IF cp.ok THEN Overwrite(host, copied) ELSE host
  IN  [calls     |-> IF cp.ok THEN <<sd, cp, sync>> ELSE <<sd, cp>>,
       dev       |-> IF sd.ok THEN deviceId_ ELSE dev,
       ok        |-> cp.ok /\ sync.ok,
       topsHost  |-> host1,
       outKeys   |-> IF cp.ok /\ sync.ok
                     THEN keysIn \o [i \in 1..numElts |-> host1[i].p] ELSE keysIn,
       outValues |-> IF cp.ok /\ sync.ok
                     THEN valuesIn \o [i \in 1..numElts |-> host1[numElts + 1 - i].u]
                     ELSE valuesIn]

\* getPairs: copies numElts records to the host mirror and appends them; a slot
\* of the result buffer that was never written holds junk
getPairs(numElts, keysIn, valuesIn, device, host, dev, faults, junk) ==
  LET sd     == DeviceCall("cudaSetDevice", deviceId_, faults)
      cp     == DeviceCall("cudaMemcpyAsync", NoArg, faults)
      sync   == DeviceCall("cudaStreamSynchronize", NoArg, faults)
      copied == [i \in 1..numElts |-> IF i <= Len(device) THEN device[i] ELSE junk]
      host1  == IF cp.ok THEN Overwrite(host, copied) ELSE host
  IN  [calls     |-> IF cp.ok THEN <<sd, cp, sync>> ELSE <<sd, cp>>,
       dev       |-> IF sd.ok THEN deviceId_ ELSE dev,
       ok        |-> cp.ok /\ sync.ok,
       topsHost  |-> host1,
       outKeys   |-> IF cp.ok /\ sync.ok
                     THEN keysIn \o [i \in 1..numElts |-> host1[i].p] ELSE keysIn,
       outValues |-> IF cp.ok /\ sync.ok
                     THEN valuesIn \o [i \in 1..numElts |-> host1[i].u] ELSE valuesIn]

\* the last check of getNBestList
CountOk(keys, dimBatch, N) == ~(Len(keys) # dimBatch * N)

getNBestList(N, preCosts, preKeys, isFirst, faults) ==
  /\ nthState = "alive"
  /\ aborted = ""
  /\ ~call.active
  /\ call' = [N |-> N, isFirst |-> isFirst, preCosts |-> preCosts, preKeys |-> preKeys,
              active |-> TRUE]
  /\ LET t     == scores
         sd    == DeviceCall("cudaSetDevice", deviceId_, faults)
         dev0  == IF sd.ok THEN deviceId_ ELSE currentDevice
         check == CheckAbort(t, N, isFirst, maxBeamSize_, maxBatchSize_)
     IN  IF check # "" \/ ~TypeSupported(t.type, COMPILE_FP16)
         THEN /\ aborted' = IF check # "" THEN check ELSE "type"
              /\ currentDevice' = dev0
              /\ lastOp' = Op("nth", "getNBestList", FALSE, <<sd>>, FALSE)
              /\ outKeys' = preKeys
              /\ outCosts' = preCosts
              /\ UNCHANGED <<tops, topsHost>>
         ELSE \E wrote \in WroteChoices(t.dimBatch, t.inputN, N, dev0, faults) :
                \E sel \in {selectNBest(t, t.dimBatch, t.inputN, N, dev0, faults, wrote)} :
                  \E junk \in (IF t.dimBatch * N > Len(sel.tops) THEN Junk
                               ELSE {NoCandidate}) :
                    \E pairs \in {getPairs(t.dimBatch * N, preKeys, preCosts, sel.tops,
                                           topsHost, sel.dev, faults, junk)} :
                          /\ aborted' = IF ~pairs.ok THEN "CUDA_CHECK"
                                        ELSE IF ~CountOk(pairs.outKeys, t.dimBatch, N)
                                        THEN "count"
                                        ELSE ""
                          /\ currentDevice' = pairs.dev
                          /\ lastOp' = Op("nth", "getNBestList", FALSE,
                                          <<sd>> \o sel.calls \o pairs.calls, aborted' = "")
                          /\ outKeys' = pairs.outKeys
                          /\ outCosts' = pairs.outValues
                          /\ tops' = sel.tops
                          /\ topsHost' = pairs.topsHost
  /\ UNCHANGED <<COMPILE_FP16, scores, nthState, deviceId_, maxBeamSize_, maxBatchSize_,
                 cap, allocs, frees, backendVars>>

\* the decoder takes the results of the call and is ready for its next one
TakeResults ==
  /\ call.active
  /\ aborted = ""
  /\ call' = NoCall
  /\ outKeys' = <<>>
  /\ outCosts' = <<>>
  /\ lastOp' = NoOp
  /\ UNCHANGED <<currentDevice, aborted, COMPILE_FP16, scores, nthVars, backendVars>>

(***************************************************************************)
(* gpu::Backend.                                                           *)
(***************************************************************************)
MaxMajorAbove == 0

ComputeCapabilities ==
  [major : (TensorCoreMajor - 1)..(TensorCoreMajor + MaxMajorAbove), minor : {0}]

NoHandle == 0

NoLibrary == [creates |-> 0, binds |-> 0, destroys |-> 0, stream |-> "none"]

Backend(deviceId, cc, faults) ==
  /\ backendState = "none"
  /\ aborted = ""
  /\ LET sd    == DeviceCall("cudaSetDevice", deviceId, faults)
         ga    == DeviceCall("cudaDeviceGetAttribute", NoArg, faults)
         m     == DeviceCall("cudaMalloc", NoArg, faults)
         cp    == DeviceCall("cudaMemcpy", NoArg, faults)
         trace == Checked(<<sd, ga, ga, m, m, cp, cp>>)
         ok    == AllOk(trace)
     IN  /\ currentDevice' = IF sd.ok THEN deviceId ELSE currentDevice
         /\ backendDeviceId_' = deviceId
         /\ compute_' = IF sd.ok /\ ga.ok THEN cc ELSE compute_
         /\ scalars' = IF ok THEN [oneGPU |-> 1, zeroGPU |-> 0] ELSE scalars
         /\ aborted' = IF ok THEN "" ELSE "CUDA_CHECK"
         /\ backendState' = IF ok THEN "alive" ELSE "none"
         /\ lastOp' = Op("backend", "Backend", FALSE, trace, ok)
  /\ UNCHANGED <<COMPILE_FP16, callerVars, nthVars, flagVars, handleVars>>

\* a setDevice that binds device 0 whatever the backend's device is
setDeviceMut(faults) ==
  /\ backendState = "alive"
  /\ aborted = ""
  /\ LET sd == DeviceCall("cudaSetDevice", 0, faults)
     IN  /\ currentDevice' = IF sd.ok THEN 0 ELSE currentDevice
         /\ aborted' = IF sd.ok THEN "" ELSE "CUDA_CHECK"
         /\ lastOp' = Op("backend", "setDevice", FALSE, <<sd>>, sd.ok)
  /\ UNCHANGED <<COMPILE_FP16, callerVars, nthVars, backendVars>>

setDevice(faults) ==
  /\ backendState = "alive"
  /\ aborted = ""
  /\ LET sd == DeviceCall("cudaSetDevice", backendDeviceId_, faults)
     IN  /\ currentDevice' = IF sd.ok THEN backendDeviceId_ ELSE currentDevice
         /\ aborted' = IF sd.ok THEN "" ELSE "CUDA_CHECK"
         /\ lastOp' = Op("backend", "setDevice", FALSE, <<sd>>, sd.ok)
  /\ UNCHANGED <<COMPILE_FP16, callerVars, nthVars, backendVars>>

synchronize(faults) ==
  /\ backendState = "alive"
  /\ aborted = ""
  /\ LET sync == DeviceCall("cudaStreamSynchronize", NoArg, faults)
     IN  /\ aborted' = IF sync.ok THEN "" ELSE "CUDA_CHECK"
         /\ lastOp' = Op("backend", "synchronize", FALSE, <<sync>>, sync.ok)
  /\ UNCHANGED <<currentDevice, COMPILE_FP16, callerVars, nthVars, backendVars>>

\* a getter that creates its handle on every call
LazyHandleMut(handle, lib, create, bind, faults) ==
  LET sd == DeviceCall("cudaSetDevice", backendDeviceId_, faults)
      cr == DeviceCall(create, NoArg, faults)
      h  == IF cr.ok THEN lib.creates + 1 ELSE handle
      bd == [api |-> bind, arg |-> NoArg, ok |-> bind \notin faults /\ h # NoHandle]
  IN  IF ~sd.ok
      THEN [calls |-> <<sd>>, handle |-> handle, lib |-> lib]
      ELSE [calls  |-> <<sd, cr, bd>>,
            handle |-> h,
            lib    |-> [creates  |-> lib.creates + (IF cr.ok THEN 1 ELSE 0),
                        binds    |-> lib.binds + (IF bd.ok THEN 1 ELSE 0),
                        destroys |-> lib.destroys,
                        stream   |-> IF bd.ok THEN "cudaStreamPerThread"
                                     ELSE IF cr.ok THEN "default" ELSE lib.stream]]

\* a lazily created library handle: what the getter does to the handle field
\* and to the library, given the names of the library's create and bind calls
LazyHandle(handle, lib, create, bind, faults) ==
  IF handle # NoHandle
  THEN [calls |-> <<>>, handle |-> handle, lib |-> lib]
  ELSE LET sd == DeviceCall("cudaSetDevice", backendDeviceId_, faults)
           cr == DeviceCall(create, NoArg, faults)
           h  == IF cr.ok THEN lib.creates + 1 ELSE handle
           bd == [api |-> bind, arg |-> NoArg, ok |-> bind \notin faults /\ h # NoHandle]
       IN  IF ~sd.ok
           THEN [calls |-> <<sd>>, handle |-> handle, lib |-> lib]
           ELSE [calls  |-> <<sd, cr, bd>>,
                 handle |-> h,
                 lib    |-> [creates  |-> lib.creates + (IF cr.ok THEN 1 ELSE 0),
                             binds    |-> lib.binds + (IF bd.ok THEN 1 ELSE 0),
                             destroys |-> lib.destroys,
                             stream   |-> IF bd.ok THEN "cudaStreamPerThread"
                                          ELSE IF cr.ok THEN "default" ELSE lib.stream]]

getCublasHandle(faults) ==
  /\ backendState = "alive"
  /\ aborted = ""
  /\ LET r  == LazyHandle(cublasHandle_, cublas, "cublasCreate", "cublasSetStream", faults)
         ok == r.calls = <<>> \/ r.calls[1].ok
     IN  /\ cublasHandle_' = r.handle
         /\ cublas' = r.lib
         /\ currentDevice' = IF r.calls # <<>> /\ ok THEN backendDeviceId_ ELSE currentDevice
         /\ aborted' = IF ok THEN "" ELSE "CUDA_CHECK"
         /\ lastOp' = Op("backend", "getCublasHandle", FALSE, r.calls, ok)
  /\ UNCHANGED <<COMPILE_FP16, callerVars, nthVars, backendState, backendDeviceId_, compute_,
                 flagVars, cusparseHandle_, cusparse, scalars>>

getCusparseHandle(faults) ==
  /\ backendState = "alive"
  /\ aborted = ""
  /\ LET r  == LazyHandle(cusparseHandle_, cusparse, "cusparseCreate", "cusparseSetStream",
                          faults)
         ok == r.calls = <<>> \/ r.calls[1].ok
     IN  /\ cusparseHandle_' = r.handle
         /\ cusparse' = r.lib
         /\ currentDevice' = IF r.calls # <<>> /\ ok THEN backendDeviceId_ ELSE currentDevice
         /\ aborted' = IF ok THEN "" ELSE "CUDA_CHECK"
         /\ lastOp' = Op("backend", "getCusparseHandle", FALSE, r.calls, ok)
  /\ UNCHANGED <<COMPILE_FP16, callerVars, nthVars, backendState, backendDeviceId_, compute_,
                 flagVars, cublasHandle_, cublas, scalars>>

\* an operation of the Backend that makes no device call and writes no field
Reads(op) ==
  /\ backendState = "alive"
  /\ aborted = ""
  /\ lastOp' = Op("backend", op, FALSE, <<>>, TRUE)
  /\ UNCHANGED <<currentDevice, aborted, COMPILE_FP16, callerVars, nthVars, backendVars>>

getOneGPU == Reads("getOneGPU")
getZeroGPU == Reads("getZeroGPU")
getCudaComputeCapability == Reads("getCudaComputeCapability")

isInt16 == FALSE
isInt8 == int8_
isShifted == FALSE
isShiftedAll == FALSE
DumpQuantMult == dumpMatrices_
isPrecomputedAlpha == alpha_
isLegacyBatchedGemm == FALSE
useTensorCoreGemm == tensorCore_
isFused == fused_

\* the frame of a setter: everything but the flags
Setter(op, arg) ==
  /\ backendState = "alive"
  /\ aborted = ""
  /\ lastOp' = Op("backend", op, arg, <<>>, aborted' = "")
  /\ UNCHANGED <<currentDevice, COMPILE_FP16, callerVars, nthVars, backendState,
                 backendDeviceId_, compute_, handleVars, scalars>>

\* a setter of a feature the GPU does not support: LOG_ONCE writes a log line and
\* no field
Unsupported(op, arg) ==
  /\ aborted' = aborted
  /\ Setter(op, arg)
  /\ UNCHANGED flagVars

setInt16(optimize) == Unsupported("setInt16", optimize)
setShifted(shifted) == Unsupported("setShifted", shifted)
setShiftedAll(shiftedAll) == Unsupported("setShiftedAll", shiftedAll)
setLegacyBatchedGemm(legacyBatch) == Unsupported("setLegacyBatchedGemm", legacyBatch)

setInt8(optimize) ==
  /\ aborted' = aborted
  /\ Setter("setInt8", optimize)
  /\ int8_' = optimize
  /\ UNCHANGED <<alpha_, tensorCore_, fused_, dumpMatrices_>>

setDumpQuantMult(dump) ==
  /\ aborted' = aborted
  /\ Setter("setDumpQuantMult", dump)
  /\ dumpMatrices_' = dump
  /\ UNCHANGED <<int8_, alpha_, tensorCore_, fused_>>

setPrecomputedAlpha(alpha) ==
  /\ aborted' = aborted
  /\ Setter("setPrecomputedAlpha", alpha)
  /\ alpha_' = alpha
  /\ UNCHANGED <<int8_, tensorCore_, fused_, dumpMatrices_>>

\* a setFused that writes the int8 flag as well
setFusedMut(fused) ==
  /\ aborted' = aborted
  /\ Setter("setFused", fused)
  /\ fused_' = fused
  /\ int8_' = fused
  /\ UNCHANGED <<alpha_, tensorCore_, dumpMatrices_>>

setFused(fused) ==
  /\ aborted' = aborted
  /\ Setter("setFused", fused)
  /\ fused_' = fused
  /\ UNCHANGED <<int8_, alpha_, tensorCore_, dumpMatrices_>>

\* a capability check that is off by one
TensorCoreAbortMut(tensorCore, major) == tensorCore /\ major < TensorCoreMajor - 1

\* the ABORT_IF of setTensorCoreGemm
TensorCoreAbort(tensorCore, major) == tensorCore /\ major < TensorCoreMajor

setTensorCoreGemm(tensorCore) ==
  /\ aborted' = IF TensorCoreAbort(tensorCore, compute_.major) THEN "tensor cores" ELSE aborted
  /\ Setter("setTensorCoreGemm", tensorCore)
  /\ tensorCore_' = IF tensorCore /\ aborted' = "" THEN tensorCore ELSE tensorCore_
  /\ UNCHANGED <<int8_, alpha_, fused_, dumpMatrices_>>

\* the destructor destroys a handle that is set
Destroyed(handle, lib) ==
  IF handle # NoHandle
  THEN [creates |-> lib.creates, binds |-> lib.binds, destroys |-> lib.destroys + 1,
        stream |-> "none"]
  ELSE lib

BackendDestroy(faults) ==
  /\ backendState = "alive"
  /\ aborted = ""
  /\ LET sd  == DeviceCall("cudaSetDevice", backendDeviceId_, faults)
         ds  == IF cusparseHandle_ # NoHandle
                THEN <<DeviceCall("cusparseDestroy", NoArg, faults)>> ELSE <<>>
         db  == IF cublasHandle_ # NoHandle
                THEN <<DeviceCall("cublasDestroy", NoArg, faults)>> ELSE <<>>
         f   == DeviceCall("cudaFree", NoArg, faults)
     IN  IF ~sd.ok
         THEN /\ aborted' = "CUDA_CHECK"
              /\ lastOp' = Op("backend", "~Backend", FALSE, <<sd>>, FALSE)
              /\ UNCHANGED <<currentDevice, backendState, handleVars>>
         ELSE /\ aborted' = ""
              /\ currentDevice' = backendDeviceId_
              /\ lastOp' = Op("backend", "~Backend", FALSE, <<sd>> \o ds \o db \o <<f, f>>, TRUE)
              /\ backendState' = "destroyed"
              /\ cusparse' = Destroyed(cusparseHandle_, cusparse)
              /\ cublas' = Destroyed(cublasHandle_, cublas)
              /\ cusparseHandle_' = NoHandle
              /\ cublasHandle_' = NoHandle
  /\ UNCHANGED <<COMPILE_FP16, callerVars, nthVars, backendDeviceId_, compute_, flagVars,
                 scalars>>

(***************************************************************************)
(* Specifications.                                                         *)
(***************************************************************************)
InitWith(tensors, builds) ==
  /\ currentDevice = 0
  /\ aborted = ""
  /\ lastOp = NoOp
  /\ COMPILE_FP16 \in builds
  /\ scores \in tensors
  /\ outCosts = <<>>
  /\ outKeys = <<>>
  /\ call = NoCall
  /\ nthState = "none"
  /\ deviceId_ = 0
  /\ maxBeamSize_ = 0
  /\ maxBatchSize_ = 0
  /\ cap = [topk_tmp_id_buf |-> 0, topk_tmp_val_buf |-> 0, tops |-> 0, topsHost |-> 0]
  /\ allocs = 0
  /\ frees = 0
  /\ tops = <<>>
  /\ topsHost = <<>>
  /\ backendState = "none"
  /\ backendDeviceId_ = 0
  /\ compute_ = [major |-> 0, minor |-> 0]
  /\ int8_ = FALSE
  /\ alpha_ = FALSE
  /\ tensorCore_ = FALSE
  /\ fused_ = FALSE
  /\ dumpMatrices_ = FALSE
  /\ cublasHandle_ = NoHandle
  /\ cusparseHandle_ = NoHandle
  /\ scalars = [oneGPU |-> -1, zeroGPU |-> -1]
  /\ cublas = NoLibrary
  /\ cusparse = NoLibrary

MaxPre == 1

\* what a container of the caller may hold when it calls
PreContents == UNION { [1..n -> {0}] : n \in 0..MaxPre }

\* the two containers on entry, as <<outCosts, outKeys>>: of any two lengths, or
\* of one length as the decoder keeps them
AnyPre      == PreContents \X PreContents
ParallelPre == { <<p, p>> : p \in PreContents }

NthConstructApis == {"cudaSetDevice", "cudaMalloc", "cudaHostAlloc"}
NthDestroyApis   == {"cudaSetDevice", "cudaFree", "cudaFreeHost"}
NthCallApis      == {"cudaSetDevice", "topK_kernelLauncher", "cudaMemcpyAsync",
                     "cudaStreamSynchronize"}

NthNext(configs, devices, pres, faultSets) ==
  \/ \E c \in configs, d \in devices, f \in faultSets \cap SUBSET NthConstructApis :
       NthElementGPU(c.beam, c.batch, d, f)
  \/ \E N \in 0..MaxN, pre \in pres, isFirst \in BOOLEAN,
        f \in faultSets \cap SUBSET NthCallApis :
       getNBestList(N, pre[1], pre[2], isFirst, f)
  \/ TakeResults
  \/ \E f \in faultSets \cap SUBSET NthDestroyApis : NthDestroy(f)

NthApis == NthConstructApis \cup NthCallApis \cup NthDestroyApis

BackendConstructApis == {"cudaSetDevice", "cudaDeviceGetAttribute", "cudaMalloc", "cudaMemcpy"}
BackendDestroyApis   == {"cudaSetDevice", "cusparseDestroy", "cublasDestroy", "cudaFree"}
CublasApis           == {"cudaSetDevice", "cublasCreate", "cublasSetStream"}
CusparseApis         == {"cudaSetDevice", "cusparseCreate", "cusparseSetStream"}

BackendApis == BackendConstructApis \cup BackendDestroyApis \cup CublasApis
                 \cup CusparseApis \cup {"cudaStreamSynchronize"}

BackendNext(values, faultSets) ==
  \/ \E d \in Devices, cc \in ComputeCapabilities,
        f \in faultSets \cap SUBSET BackendConstructApis :
       Backend(d, cc, f)
  \/ \E f \in faultSets \cap SUBSET {"cudaSetDevice"} : setDevice(f)
  \/ \E f \in faultSets \cap SUBSET {"cudaStreamSynchronize"} : synchronize(f)
  \/ \E f \in faultSets \cap SUBSET CublasApis : getCublasHandle(f)
  \/ \E f \in faultSets \cap SUBSET CusparseApis : getCusparseHandle(f)
  \/ getOneGPU
  \/ getZeroGPU
  \/ getCudaComputeCapability
  \/ \E v \in values : setInt16(v)
  \/ \E v \in values : setInt8(v)
  \/ \E v \in values : setShifted(v)
  \/ \E v \in values : setShiftedAll(v)
  \/ \E v \in values : setDumpQuantMult(v)
  \/ \E v \in values : setPrecomputedAlpha(v)
  \/ \E v \in values : setLegacyBatchedGemm(v)
  \/ \E v \in values : setTensorCoreGemm(v)
  \/ \E v \in values : setFused(v)
  \/ \E f \in faultSets \cap SUBSET BackendDestroyApis : BackendDestroy(f)

\* the tensor of a decoding step: one row, one beam, the largest vocabulary
DecoderTensor ==
  [dimBatch |-> 1, inputN |-> 1, vocabSize |-> MAX_VOCAB_SIZE, type |-> "float32",
   data |-> << [at |-> << >>, fill |-> 0] >>]

\* the selection engine on device 0 over tensors of every shape and type
SpecNth ==
  /\ InitWith(ShapeTensors, BOOLEAN)
  /\ [][NthNext(SmallConfigs \cup LargeConfigs, {0}, ParallelPre, FaultSets(NthApis))]_vars

\* the selection engine over tensors of every content, no device call failing
SpecTopK ==
  /\ InitWith(ContentTensors \cup WideTensors, {TRUE})
  /\ [][NthNext({[beam |-> MaxBeamCap, batch |-> MaxBatchCap]}, Devices, AnyPre, {{}})]_vars

\* the backend
SpecBackend ==
  InitWith({DecoderTensor}, {TRUE}) /\ [][BackendNext(BOOLEAN, FaultSets(BackendApis))]_vars

\* an engine and a backend of one process, used in turn by one thread; only
\* cudaSetDevice fails, and the setters are called with false
Spec ==
  /\ InitWith({DecoderTensor}, {TRUE})
  /\ [][\/ NthNext({[beam |-> 1, batch |-> 1]}, Devices, ParallelPre,
                   FaultSets({"cudaSetDevice"}))
        \/ BackendNext({FALSE}, FaultSets({"cudaSetDevice"}))]_vars

(***************************************************************************)
(* The claims.  After a call of getNBestList the state holds the call: its *)
(* arguments (call), its device calls and outcome (lastOp) and the         *)
(* containers as the call left them, until the decoder takes the results.  *)
(***************************************************************************)
NthCall == lastOp.obj = "nth" /\ lastOp.op = "getNBestList" /\ call.active

\* the beam dimension the call requires of its tensor
RequiredBeams == IF call.isFirst THEN 1 ELSE call.N

\* the four preconditions as the claims state them, and a supported type
Preconditions ==
  /\ scores.inputN = RequiredBeams
  /\ scores.vocabSize <= 500000
  /\ scores.dimBatch <= maxBatchSize_
  /\ Max(call.N, scores.inputN) <= maxBeamSize_

Supported == scores.type = "float32" \/ (COMPILE_FP16 /\ scores.type = "float16")

KernelLaunched == \E i \in DOMAIN lastOp.calls : lastOp.calls[i].api = "topK_kernelLauncher"

NothingAppended == outCosts = call.preCosts /\ outKeys = call.preKeys

\* C1: a call of getNBestList that satisfies the four preconditions on a tensor
\* of a supported type, and whose device calls succeed, does not abort and leaves
\* each container dimBatch * N longer than it was on entry, whatever the
\* containers held on entry.
C1_AppendsExactly ==
  NthCall /\ Preconditions /\ Supported /\ AllOk(lastOp.calls) =>
    /\ aborted = ""
    /\ lastOp.returned
    /\ Len(outCosts) = Len(call.preCosts) + scores.dimBatch * call.N
    /\ Len(outKeys) = Len(call.preKeys) + scores.dimBatch * call.N

\* the pairs a call appended for batch row b, by rank 1..N
KeyAt(b, r) == outKeys[Len(call.preKeys) + b * call.N + r]
ValueAt(b, r) == outCosts[Len(call.preCosts) + b * call.N + r]

\* the ranks of a row that a candidate can fill
Ranks == 1..Min(call.N, RowLen(scores))

\* Positions of row b that stand for all of its candidates: those with a score of
\* their own, and enough of the others that one of them is not among N returned.
Sample(b) ==
  LET own == DOMAIN scores.data[b + 1].at
  IN  own \cup (0..(Min(RowLen(scores), call.N + Cardinality(own) + 1) - 1))

C3_BeamDimRule ==
  NthCall =>
    /\ scores.inputN # RequiredBeams =>
         /\ aborted = "beam dim"
         /\ ~lastOp.returned
         /\ ~KernelLaunched
         /\ NothingAppended
    /\ scores.inputN = RequiredBeams => aborted # "beam dim"

\* the first step of a search called with a tensor of two beams and N = 2
C3_Witness ==
  /\ NthCall
  /\ call.isFirst /\ call.N = 2 /\ scores.inputN = 2
  /\ aborted = "beam dim"

CapacityAborts == {"vocab size", "batch size", "beam size"}

\* C4: for a call that satisfies the beam-dimension rule, the capacity checks are
\* inclusive: a call with vocabSize <= 500000, dimBatch <= maxBatchSize and
\* max(N, inputN) <= maxBeamSize, equality included, passes them and launches the
\* kernel when its type is supported; a call one beyond any of the three aborts,
\* no kernel launched and nothing appended.
C4_InclusiveBounds ==
  NthCall /\ scores.inputN = RequiredBeams =>
    IF \/ scores.vocabSize >= 500001
       \/ scores.dimBatch >= maxBatchSize_ + 1
       \/ Max(call.N, scores.inputN) >= maxBeamSize_ + 1
    THEN /\ aborted \in CapacityAborts
         /\ ~lastOp.returned
         /\ ~KernelLaunched
         /\ NothingAppended
    ELSE /\ aborted \notin CapacityAborts
         /\ Supported => KernelLaunched

\* a call at all three bounds that returned
C4_Witness ==
  /\ NthCall /\ lastOp.returned
  /\ scores.vocabSize = 500000
  /\ scores.dimBatch = maxBatchSize_ /\ maxBatchSize_ = 2
  /\ Max(call.N, scores.inputN) = maxBeamSize_ /\ maxBeamSize_ = 2

\* C5: setTensorCoreGemm(true) aborts when the cached major version is below 7 and
\* otherwise returns with useTensorCoreGemm true; in every state
\* useTensorCoreGemm is true only if the cached major version is at least 7.
C5_TensorCore ==
  /\ useTensorCoreGemm => compute_.major >= 7
  /\ lastOp.op = "setTensorCoreGemm" /\ lastOp.arg =>
       IF compute_.major < 7
       THEN aborted = "tensor cores" /\ ~lastOp.returned /\ ~useTensorCoreGemm
       ELSE aborted = "" /\ lastOp.returned /\ useTensorCoreGemm

\* setTensorCoreGemm(true) on a device of major version 7 returned
C5_Witness ==
  /\ lastOp.op = "setTensorCoreGemm" /\ lastOp.arg /\ lastOp.returned
  /\ compute_.major = 7
  /\ useTensorCoreGemm

\* C6, in every state, for a handle field and its library: no handle after
\* construction; at most one handle is ever created; while the backend lives the
\* handle is set exactly when one was created and none was destroyed; after
\* destruction the field is clear and as many handles were destroyed as created.
HandleState(handle, lib) ==
  /\ lastOp.op = "Backend" => handle = NoHandle /\ lib = NoLibrary
  /\ lib.creates <= 1
  /\ backendState = "alive" =>
       /\ lib.destroys = 0
       /\ handle # NoHandle <=> lib.creates = 1
  /\ backendState = "destroyed" => handle = NoHandle /\ lib.destroys = lib.creates

\* C6, in every step, for a handle and library before (handle, lib) and after it
\* (handleNext, libNext) and the library's getter: a set handle stays as it is,
\* and its library with it, until destruction; the getter makes no device call
\* when the handle is set; when it is not and the getter's device calls succeed,
\* the getter creates one handle and binds it to the per-thread stream; the
\* getter of the other library leaves this one alone.
HandleStep(handle, lib, handleNext, libNext, getter, other) ==
  /\ handle # NoHandle /\ backendState' = "alive" => handleNext = handle /\ libNext = lib
  /\ lastOp'.op = getter /\ handle # NoHandle => lastOp'.calls = <<>> /\ lastOp'.returned
  /\ lastOp'.op = getter /\ handle = NoHandle /\ AllOk(lastOp'.calls) =>
       /\ lastOp'.returned
       /\ handleNext # NoHandle
       /\ libNext = [creates |-> lib.creates + 1, binds |-> lib.binds + 1,
                     destroys |-> lib.destroys, stream |-> "cudaStreamPerThread"]
  /\ lastOp'.op = other => handleNext = handle /\ libNext = lib

\* C6: each of the two library handles, independently of the other, is not
\* created at construction, is created and bound to the per-thread stream by the
\* first call of its getter (its device calls succeeding), is returned by every
\* later call without another create or bind, is created at most once, stays set
\* until destruction, and is destroyed by the destructor exactly if it was created.
C6_LazyHandles ==
  /\ [](HandleState(cublasHandle_, cublas) /\ HandleState(cusparseHandle_, cusparse))
  /\ [][/\ HandleStep(cublasHandle_, cublas, cublasHandle_', cublas',
                      "getCublasHandle", "getCusparseHandle")
        /\ HandleStep(cusparseHandle_, cusparse, cusparseHandle_', cusparse',
                      "getCusparseHandle", "getCublasHandle")]_vars

\* a second call of getCublasHandle, the sparse handle never asked for
C6_Witness ==
  /\ lastOp.op = "getCublasHandle" /\ lastOp.calls = <<>> /\ lastOp.returned
  /\ cublasHandle_ # NoHandle
  /\ cublas = [creates |-> 1, binds |-> 1, destroys |-> 0, stream |-> "cudaStreamPerThread"]
  /\ cusparseHandle_ = NoHandle /\ cusparse = NoLibrary

Teardown == {"~NthElementGPU", "~Backend"}

\* C7: an operation other than a destructor either returns with its postcondition
\* or ends the process; none returns after a device call of it failed, and a handle
\* getter that returns returns a handle bound to the per-thread stream.
C7_NoReturnAfterFailure ==
  lastOp.op \notin Teardown =>
    /\ lastOp.returned <=> aborted = ""
    /\ ~AllOk(lastOp.calls) => ~lastOp.returned
    /\ lastOp.op = "getCublasHandle" /\ lastOp.returned =>
         cublasHandle_ # NoHandle /\ cublas.stream = "cudaStreamPerThread"
    /\ lastOp.op = "getCusparseHandle" /\ lastOp.returned =>
         cusparseHandle_ # NoHandle /\ cusparse.stream = "cudaStreamPerThread"

\* the device of the object the last operation was called on
OwnDevice == IF lastOp.obj = "nth" THEN deviceId_ ELSE backendDeviceId_

BindsFirst(op) ==
  /\ op.calls # <<>>
  /\ op.calls[1].api = "cudaSetDevice"
  /\ op.calls[1].arg = OwnDevice

Binding == {"NthElementGPU", "~NthElementGPU", "getNBestList", "Backend", "~Backend",
            "setDevice"}
Getters == {"getCublasHandle", "getCusparseHandle"}

HandleOf(getter) == IF getter = "getCublasHandle" THEN cublasHandle_ ELSE cusparseHandle_

Flags ==
  [int8 |-> int8_, alpha |-> alpha_, tensorCore |-> tensorCore_, fused |-> fused_,
   dumpMatrices |-> dumpMatrices_]

\* the flag of each supported setter
FlagOf ==
  [setInt8 |-> "int8", setPrecomputedAlpha |-> "alpha", setFused |-> "fused",
   setDumpQuantMult |-> "dumpMatrices", setTensorCoreGemm |-> "tensorCore"]

UnsupportedSetters == {"setInt16", "setShifted", "setShiftedAll", "setLegacyBatchedGemm"}

\* C9: a supported setter changes at most its own flag; an unsupported setter
\* returns without aborting and changes no flag; neither changes the cached
\* compute capability or a library handle; and isInt16, isShifted, isShiftedAll
\* and isLegacyBatchedGemm are false in every state.
C9_FlagsIndependent ==
  /\ [][/\ lastOp'.op \in DOMAIN FlagOf =>
             /\ \A f \in DOMAIN Flags \ {FlagOf[lastOp'.op]} : Flags'[f] = Flags[f]
             /\ UNCHANGED <<compute_, handleVars>>
        /\ lastOp'.op \in UnsupportedSetters =>
             /\ lastOp'.returned /\ aborted' = ""
             /\ UNCHANGED <<flagVars, compute_, handleVars>>]_vars
  /\ [](~isInt16 /\ ~isShifted /\ ~isShiftedAll /\ ~isLegacyBatchedGemm)

\* setFused(true) on a backend whose tensor-core flag is set and whose dense
\* handle exists: both are kept and the int8 flag stays clear
C9_Witness ==
  /\ lastOp.op = "setFused" /\ lastOp.arg /\ lastOp.returned
  /\ isFused /\ ~isInt8 /\ useTensorCoreGemm
  /\ cublasHandle_ # NoHandle

\* C10: a call that passes the four checks and launches the kernel copies at most as many records as the
\* result buffer and its host mirror hold, and its stage-1 candidates fit the
\* temporary buffers; the four buffers are allocated once, by the constructor,
\* and none is released while the engine lives.
C10_WithinCapacity ==
  /\ nthState = "alive" => allocs = 4 /\ frees = 0
  /\ NthCall /\ Preconditions /\ Supported /\ KernelLaunched =>
       /\ scores.dimBatch * call.N <= cap.tops
       /\ scores.dimBatch * call.N <= cap.topsHost
       /\ TempFootprint(scores.dimBatch, scores.inputN, call.N) <= cap.topk_tmp_id_buf
       /\ TempFootprint(scores.dimBatch, scores.inputN, call.N) <= cap.topk_tmp_val_buf

====
